---- MODULE Spec2Model ----
(***************************************************************************)
(* The TSNE operator of caffe2_bhtsne (src/src/tsne_op.cpp): an operator   *)
(* definition is constructed into a TSNEOp, RunOnDevice validates the      *)
(* workspace blobs, resizes the output and calls TSNE::run, the Barnes-Hut *)
(* t-SNE driver of the bhtsne subfolder.                                   *)
(*                                                                         *)
(* tsne.h / tsne.cpp are not among the sources: TSNE::run is modelled from *)
(* the specification (sections 4.1, 4.3, 5, 6), with the floating-point    *)
(* arithmetic abstracted to integers modulo ValMod so that the data        *)
(* dependencies (output on X, on the P-graph, on the initial embedding and *)
(* on the random generator) are kept.                                      *)
(***************************************************************************)
EXTENDS Integers, Sequences, FiniteSets, TLC

(* ------------------------------ bounds -------------------------------- *)

\* Largest number of rows N of a fed tensor (the smallest is MaxN - 1).
MaxN == 4
\* Largest max_iter argument of an operator definition.
MaxIter == 3
\* Data values are integers modulo ValMod.
ValMod == 3
\* RunOnDevice is invoked at most MaxCalls times on the operator instance.
MaxCalls == 2
\* Last iteration (0-based) of the early-exaggeration phase; about 250 in
\* the specification, scaled down with MaxIter.
StopLyingIter == 1
\* The seeds a time-based seeding may draw are 1..TimeSeeds.
TimeSeeds == 2

(* ------------------------- program constants -------------------------- *)

\* OP_SINGLE_ARG defaults of the constructor.
DefaultDims == 0
DefaultPerplexity == 50
\* theta is held in halves: 0.5f is 1.
DefaultTheta == 1
DefaultRandomSeed == 0
DefaultMaxIter == 1000
\* The multiplier of the early-exaggeration phase.
Exaggeration == 12

(* ------------------------------ tensors ------------------------------- *)

\* A TensorCPU: its dims, its element type and its storage (<<>> when no
\* storage is allocated).
Tensor(dims, type, data) == [dims |-> dims, type |-> type, data |-> data]

RECURSIVE Product(_)
Product(s) == IF s = <<>> THEN 1 ELSE Head(s) * Product(Tail(s))

\* Tensor::size(): -1 for a default-constructed tensor.
Size(t) == IF t.dims = <<>> THEN -1 ELSE Product(t.dims)

Ndim(t) == Len(t.dims)

Dim32(t, i) == t.dims[i + 1]

IsTypeDouble(t) == t.type = "double"

\* n values starting at v with stride s: the patterns tensors are fed with.
Fill(n, v, s) == [i \in 1..n |-> (v + (i - 1) * s) % ValMod]

\* Tensor::Resize: the dims are set; the storage is freed only when the
\* size changed and no longer fits the capacity.
Resize(t, dims) ==
  LET newsize == Product(dims)
  IN  IF newsize # Size(t) /\ newsize > Len(t.data)
        THEN Tensor(dims, t.type, <<>>)
        ELSE Tensor(dims, t.type, SubSeq(t.data, 1, newsize))

\* Tensor::mutable_data<double>() has to allocate when the tensor holds
\* another type or no storage.
NeedsAlloc(t) == ~(IsTypeDouble(t) /\ (Size(t) = 0 \/ t.data # <<>>))

\* Tensor::mutable_data<double>(): fresh storage is uninitialised, its
\* contents (the pattern v) are arbitrary.
MutableData(t, v) ==
  IF NeedsAlloc(t) THEN Tensor(t.dims, "double", Fill(Size(t), v, 0)) ELSE t

(* ------------------------ operator definitions ------------------------ *)

\* The arguments the schema documents, .Arg(...).
SchemaArgs == {"dim", "perplexity", "theta", "random_seed", "max_iter"}

\* The schema's NumInputs(1, 2).
NumInputs == {1, 2}

HasArg(d, name) == name \in DOMAIN d.args

\* OperatorBase::GetSingleArgument, behind OP_SINGLE_ARG.
GetSingleArgument(d, name, default) ==
  IF HasArg(d, name) THEN d.args[name] ELSE default

\* An argument list holding `name` with each value of vals, or without it.
Optional(name, vals) == {<<>>} \cup {name :> v : v \in vals}

\* The operator definitions the model is run on.
ArgLists ==
  { a1 @@ a2 @@ a3 @@ a4 @@ a5 :
      a1 \in Optional("dims", {0, 1, 2}),
      a2 \in Optional("dim", {2}),
      a3 \in Optional("perplexity", {1}),
      a4 \in Optional("random_seed", {1}),
      a5 \in {"max_iter" :> m : m \in 0..MaxIter} }

OperatorDefs == [args : ArgLists, ninputs : NumInputs]

\* The tensors the caller feeds: well-formed N x D matrices of doubles, a
\* 1-dimensional tensor, a tensor of floats, and a blob never written.
Matrices ==
  { Tensor(<<n, d>>, "double", Fill(n * d, v, v)) :
      n \in (MaxN - 1)..MaxN, d \in 1..2, v \in 0..1 }

FedTensors ==
  Matrices \cup { Tensor(<<MaxN>>, "double", Fill(MaxN, 0, 1)),
                  Tensor(<<MaxN, 1>>, "float", Fill(MaxN, 0, 1)),
                  Tensor(<<>>, "none", <<>>) }

\* What the output blob of a one-input operator holds beforehand: nothing,
\* floats, or a matrix of an earlier run.
OutputBlobs ==
  { t \in FedTensors : ~IsTypeDouble(t) \/ t.dims = << MaxN, 1 >> }

(* ------------------------------- state -------------------------------- *)

VARIABLES
  def,            \* the OperatorDef the operator is created from
  op,             \* "unconstructed", "constructed" or "ctorFailed"
  dims_, perplexity_, theta_, random_seed_, max_iter_,   \* TSNEOp's members
  X,              \* workspace blob of Input(0)
  Y,              \* workspace blob of Output(0), which is Input(1) in place
  fed,            \* the tensors the caller feeds X and Y with
  status,         \* of RunOnDevice: "idle", "running", "returned",
                  \* "enforceFailed" (CAFFE_ENFORCE threw), "aborted"
  calls,          \* invocations of RunOnDevice so far
  run,            \* the arguments TSNE::run was last called with
  phase,          \* the optimizer's state (specification 4.3)
  iter,           \* the optimizer's iteration counter
  P,              \* the P-graph, one weight per point
  rng,            \* the state of the pseudorandom generator
  written,        \* whether TSNE::run has written the output buffer
  pre,            \* X and Y as they were when RunOnDevice was last invoked
  hist            \* the invocations that returned: inputs and output

vars == << def, op, dims_, perplexity_, theta_, random_seed_, max_iter_, X, Y,
           fed, status, calls, run, phase, iter, P, rng, written, pre, hist >>

members == << dims_, perplexity_, theta_, random_seed_, max_iter_ >>

core == << run, phase, iter, P, rng, written >>

NoRun == [N |-> 0, D |-> 0, no_dims |-> 0, perplexity |-> 0, theta |-> 0,
          rand_seed |-> 0, skip_random_init |-> FALSE, max_iter |-> 0]

Init ==
  /\ def \in OperatorDefs
  /\ op = "unconstructed"
  /\ dims_ = 0 /\ perplexity_ = 0 /\ theta_ = 0
  /\ random_seed_ = 0 /\ max_iter_ = 0
  /\ X \in FedTensors
  /\ Y \in IF def.ninputs = 2 THEN FedTensors ELSE OutputBlobs
  /\ fed = [X |-> X, Y |-> Y]
  /\ status = "idle"
  /\ calls = 0
  /\ run = NoRun
  /\ phase = "Idle"
  /\ iter = 0
  /\ P = <<>>
  /\ rng = 0
  /\ written = FALSE
  /\ pre = [X |-> X, Y |-> Y]
  /\ hist = <<>>

(* ---------------------------- constructor ----------------------------- *)

\* The name of the argument OP_SINGLE_ARG reads the output dimension from.
DimsArgName == "dims"

\* A constructor that only rejects negative dimensions.
CtorEnforceNonNegative(dims) == dims >= 0

\* CAFFE_ENFORCE(dims_ > 0, ...)
CtorEnforce(dims) == dims > 0

\* TSNEOp::TSNEOp: the members are read from the definition, a TSNE object
\* is created, and the constructor throws unless dims_ > 0.
Construct ==
  /\ op = "unconstructed"
  /\ LET d == GetSingleArgument(def, DimsArgName, DefaultDims)
     IN  /\ dims_' = d
         /\ op' = IF CtorEnforce(d) THEN "constructed" ELSE "ctorFailed"
  /\ perplexity_' = GetSingleArgument(def, "perplexity", DefaultPerplexity)
  /\ theta_' = GetSingleArgument(def, "theta", DefaultTheta)
  /\ random_seed_' = GetSingleArgument(def, "random_seed", DefaultRandomSeed)
  /\ max_iter_' = GetSingleArgument(def, "max_iter", DefaultMaxIter)
  /\ UNCHANGED << def, X, Y, fed, status, calls, core, pre, hist >>

(* ---------------------------- RunOnDevice ----------------------------- *)

InputSize == def.ninputs

\* bool skip_random_init = (InputSize() == 2);
SkipRandomInit(ninputs) == ninputs = 2

\* The two CAFFE_ENFORCEs on X.
XChecks(x) == Ndim(x) = 2 /\ IsTypeDouble(x)

\* The checks on the second input without the check of its columns.
InitChecksNoCols(init, N, dims) ==
  /\ Ndim(init) = 2
  /\ Dim32(init, 0) = N
  /\ IsTypeDouble(init)

\* The checks on the second input without the check of its rows.
InitChecksNoRows(init, N, dims) ==
  /\ Ndim(init) = 2
  /\ Dim32(init, 1) = dims
  /\ IsTypeDouble(init)

\* The four CAFFE_ENFORCEs on the second input.
InitChecks(init, N, dims) ==
  /\ Ndim(init) = 2
  /\ Dim32(init, 0) = N
  /\ Dim32(init, 1) = dims
  /\ IsTypeDouble(init)

\* The output resized with its two dimensions exchanged.
OutShapeTransposed(N, D, dims) == << dims, N >>

\* Y->Resize(N, dims_)
OutShape(N, D, dims) == << N, dims >>

\* The call with theta_ in the place of perplexity_, with the default seed
\* in the place of random_seed_, and with random_seed_ in the place of
\* max_iter_.
PerplexityArgIsTheta == theta_
RandomSeedArgDropped == DefaultRandomSeed
MaxIterArgIsSeed == random_seed_

\* The arguments of the call tsne_->run(...), in the order of the call.
PerplexityArg == perplexity_
RandomSeedArg == random_seed_
MaxIterArg == max_iter_
RunArgs(N, D) ==
  [N |-> N, D |-> D, no_dims |-> dims_, perplexity |-> PerplexityArg,
   theta |-> theta_, rand_seed |-> RandomSeedArg,
   skip_random_init |-> SkipRandomInit(InputSize), max_iter |-> MaxIterArg]

\* RunOnDevice up to its call of TSNE::run: a failed CAFFE_ENFORCE throws
\* and leaves everything as it was; otherwise the output is resized, its
\* storage obtained, and run is entered.
RunOnDevice ==
  /\ op = "constructed"
  /\ status \in {"idle", "returned", "enforceFailed"}
  /\ calls < MaxCalls
  /\ calls' = calls + 1
  /\ pre' = [X |-> X, Y |-> Y]
  /\ IF XChecks(X) /\ (InputSize = 2 => InitChecks(Y, Dim32(X, 0), dims_))
       THEN LET N == Dim32(X, 0)
                D == Dim32(X, 1)
            IN  /\ \E v \in 0..1 :
                     Y' = MutableData(Resize(Y, OutShape(N, D, dims_)), v)
                /\ run' = RunArgs(N, D)
                /\ status' = "running"
                /\ phase' = "Initializing"
                /\ written' = FALSE
                /\ UNCHANGED << iter, P, rng >>
       ELSE /\ status' = "enforceFailed"
            /\ UNCHANGED << Y, core >>
  /\ UNCHANGED << def, op, members, X, fed, hist >>

\* The caller feeds the input blobs again before another invocation.
FeedBlobs ==
  /\ status \in {"returned", "enforceFailed"}
  /\ calls < MaxCalls
  /\ << X, Y >> # << fed.X, fed.Y >>
  /\ X' = fed.X
  /\ Y' = fed.Y
  /\ status' = "idle"
  /\ UNCHANGED << def, op, members, fed, calls, core, pre, hist >>

(* ----------------------------- TSNE::run ------------------------------ *)

\* Specification 4.1 and 8: the run fails when perplexity >= N / 3.
PerplexityTooLarge(N, perplexity) == 3 * perplexity >= N

RECURSIVE RowSum(_, _, _, _)
RowSum(x, i, D, j) ==
  IF j = 0 THEN 0 ELSE x[(i - 1) * D + j] + RowSum(x, i, D, j - 1)

\* Specification 4.1: the P-graph is computed once from the input matrix;
\* here one positive weight per point, a function of that point's row.
ComputeP(x, N, D) == [i \in 1..N |-> 1 + (RowSum(x, i, D, D) % ValMod)]

\* An end of the exaggeration that leaves the P-graph inflated.
StopLyingSkipped(p) == p

\* Specification 4.3: P is inflated by the multiplier on entering the
\* early-exaggeration phase, and divided by it at the phase's end.
Exaggerate(p) == [i \in DOMAIN p |-> p[i] * Exaggeration]
StopLying(p) == [i \in DOMAIN p |-> p[i] \div Exaggeration]

\* The pseudorandom generator: a linear congruential step.
Rand(s) == (3 * s + 1) % 7

RECURSIVE RandAfter(_, _)
RandAfter(s, k) == IF k = 0 THEN s ELSE RandAfter(Rand(s), k - 1)

\* Specification 5: the generator is seeded with random_seed, or from the
\* clock (the draw t) when random_seed is 0.
Seed(rand_seed, t) == IF rand_seed # 0 THEN rand_seed % 7 ELSE t

\* Specification 4.3, steps 1 to 7: one gradient update of the embedding y
\* from the P-graph p; the point of cell k is its row.
GradientStep(y, p, no_dims) ==
  [k \in DOMAIN y |-> (y[k] + p[((k - 1) \div no_dims) + 1] + 1) % ValMod]

\* The phase after the iteration numbered it (0-based) of max_iter.
PhaseAfter(it, max_iter, ph) ==
  IF it + 1 >= max_iter THEN "Terminated"
  ELSE IF it = StopLyingIter THEN "Normal"
  ELSE ph

\* The entry of TSNE::run: an invalid configuration aborts; otherwise the
\* P-graph is built and inflated, the optimizer state is initialised and,
\* unless skip_random_init, the embedding is drawn from the generator.
CoreInit ==
  /\ status = "running"
  /\ phase = "Initializing"
  /\ IF PerplexityTooLarge(run.N, run.perplexity)
       THEN /\ phase' = "InvalidConfig"
            /\ status' = "aborted"
            /\ UNCHANGED << Y, iter, P, rng, written >>
       ELSE /\ P' = Exaggerate(ComputeP(X.data, run.N, run.D))
            /\ iter' = 0
            /\ phase' = IF run.max_iter > 0 THEN "EarlyExaggeration"
                        ELSE "Terminated"
            /\ status' = status
            /\ IF run.skip_random_init
                 THEN UNCHANGED << Y, rng, written >>
                 ELSE \E t \in 1..TimeSeeds :
                        LET s == Seed(run.rand_seed, t)
                            n == run.N * run.no_dims
                        IN  /\ Y' = [Y EXCEPT !.data =
                                       [k \in 1..n |-> RandAfter(s, k) % ValMod]]
                            /\ rng' = RandAfter(s, n)
                            /\ written' = TRUE
  /\ UNCHANGED << def, op, members, X, fed, calls, run, pre, hist >>

\* One iteration of the optimizer loop, iter < max_iter being its only
\* condition; the iteration numbered StopLyingIter ends the exaggeration.
Iterate ==
  /\ status = "running"
  /\ phase \in {"EarlyExaggeration", "Normal"}
  /\ iter < run.max_iter
  /\ Y' = [Y EXCEPT !.data = GradientStep(Y.data, P, run.no_dims)]
  /\ written' = TRUE
  /\ P' = IF iter = StopLyingIter THEN StopLying(P) ELSE P
  /\ phase' = PhaseAfter(iter, run.max_iter, phase)
  /\ iter' = iter + 1
  /\ UNCHANGED << def, op, members, X, fed, status, calls, run, rng, pre, hist >>

\* TSNE::run returns, the P-graph is freed, and RunOnDevice returns true.
Return ==
  /\ status = "running"
  /\ phase = "Terminated"
  /\ status' = "returned"
  /\ P' = <<>>
  /\ hist' = Append(hist, [pre |-> pre, out |-> Y])
  /\ UNCHANGED << def, op, members, X, Y, fed, calls, run, phase, iter, rng,
                  written, pre >>

Next ==
  \/ Construct
  \/ RunOnDevice
  \/ FeedBlobs
  \/ CoreInit
  \/ Iterate
  \/ Return

Spec == Init /\ [][Next]_vars

\* RunOnDevice is one synchronous call: once TSNE::run is entered it runs
\* on, without suspension points, until it returns or aborts.
FairSpec ==
  Spec /\ WF_vars(CoreInit) /\ WF_vars(Iterate) /\ WF_vars(Return)

(* ------------------------------- claims ------------------------------- *)

\* The number of rows of the input of the last invocation.
InputRows == Dim32(pre.X, 0)

\* C1: when RunOnDevice returns, with one input or with two, the output
\* tensor is 2-dimensional with N rows (the rows of X) and dims columns,
\* and holds that many doubles.
C1_OutputShape ==
  status = "returned" =>
    /\ Y.dims = << InputRows, dims_ >>
    /\ IsTypeDouble(Y)
    /\ Len(Y.data) = InputRows * dims_

\* C1's case: a one-input invocation returned whose output blob had
\* another shape before, with dims different from D.
C1_Witness ==
  /\ status = "returned"
  /\ InputSize = 1
  /\ pre.Y.dims # Y.dims
  /\ dims_ # Dim32(X, 1)

Preconditions(x, y) ==
  /\ Len(x.dims) = 2
  /\ x.type = "double"
  /\ def.ninputs = 2 =>
       /\ Len(y.dims) = 2
       /\ y.dims[1] = x.dims[1]
       /\ y.dims[2] = dims_
       /\ y.type = "double"

\* C3: an invocation of RunOnDevice with any precondition violated aborts
\* with the output blob, the input and the state of TSNE::run as they
\* were: the output is not resized and run is not entered.
C3_ChecksBeforeEffects ==
  [][ (calls' = calls + 1 /\ ~Preconditions(X, Y)) =>
        /\ status' = "enforceFailed"
        /\ Y' = Y
        /\ X' = X
        /\ UNCHANGED core ]_vars

\* C3's case: a two-input invocation aborted on a check of the second
\* input, X having passed its own checks.
C3_Witness ==
  /\ status = "enforceFailed"
  /\ InputSize = 2
  /\ XChecks(X)
  /\ Ndim(Y) = 2
  /\ IsTypeDouble(Y)

C5_DocumentedArgIsRead ==
  (op # "unconstructed" /\ "dim" \in SchemaArgs /\ HasArg(def, "dim")
     /\ def.args["dim"] > 0) =>
    /\ op = "constructed"
    /\ status = "returned" => Y.dims = << InputRows, def.args["dim"] >>

\* C6: on entry of TSNE::run, skip_random_init is true exactly when the
\* operator has two inputs, and then the buffer handed to run is the
\* caller's second input, shape and contents.
C6_SkipKeepsInitialEmbedding ==
  (status = "running" /\ phase = "Initializing") =>
    /\ run.skip_random_init <=> (InputSize = 2)
    /\ InputSize = 2 => Y = pre.Y

\* C6's case: run was entered with two inputs and a caller's embedding.
C6_Witness ==
  /\ status = "running"
  /\ phase = "Initializing"
  /\ InputSize = 2
  /\ run.skip_random_init
  /\ Y.data # <<>>

Rank(ph) ==
  CASE ph = "Initializing" -> 0
    [] ph = "EarlyExaggeration" -> 1
    [] ph = "Normal" -> 2
    [] ph = "Terminated" -> 3
    [] OTHER -> 4

\* The phase the iteration counter alone determines.
PhaseOf(it, max_iter) ==
  IF it >= max_iter THEN "Terminated"
  ELSE IF it <= StopLyingIter THEN "EarlyExaggeration"
  ELSE "Normal"

Optimizing == status = "running" /\ phase # "Initializing"

\* C9: a run that starts optimizing reaches Terminated, and is there after
\* exactly max_iter iterations; its phase is the one the iteration counter
\* determines, and the phases never go backwards.
C9_ExactlyMaxIter ==
  /\ [](Optimizing => phase = PhaseOf(iter, max_iter_))
  /\ [][ (Optimizing /\ status' = "running") =>
           /\ Rank(phase') >= Rank(phase)
           /\ iter' \in {iter, iter + 1} ]_vars
  /\ (Optimizing ~> (phase = "Terminated" /\ iter = max_iter_))

\* C9's case: a run terminated after passing through the Normal phase.
C9_Witness ==
  /\ status = "running"
  /\ phase = "Terminated"
  /\ iter = max_iter_
  /\ iter > StopLyingIter + 1

\* The true probabilities of the current run.
TrueP == ComputeP(X.data, run.N, run.D)

\* C10 as stated: in the Normal phase and at Terminated the P-graph holds
\* the true probabilities, for every positive max_iter.
C10_TrueProbabilities ==
  (status = "running" /\ run.max_iter > 0
     /\ phase \in {"Normal", "Terminated"}) => P = TrueP

\* C10 amended: throughout the Normal phase, and at Terminated when the run
\* has executed the end-of-exaggeration iteration, the P-graph holds the
\* true probabilities; before that iteration, and at Terminated when
\* max_iter ends the run before it, the P-graph is still inflated.
C10_TrueAfterBoundary ==
  Optimizing =>
    IF iter > StopLyingIter THEN P = TrueP ELSE P = Exaggerate(TrueP)

\* C10's case: an iteration of the Normal phase is about to run.
C10_Witness ==
  /\ status = "running"
  /\ phase = "Normal"
  /\ iter < run.max_iter
  /\ P = TrueP

====
